---------------------------- MODULE Spec2Model ----------------------------
(***************************************************************************)
(* Model of the Mono2D layer (src/mono2D.py): construction with its        *)
(* validation and parameter encoding, the frequency mesh, the low-pass     *)
(* and log-Gabor masks, the shapes and index pairing of forward, and the   *)
(* per-sample min-max normalisation.                                       *)
(*                                                                         *)
(* Intermediate values are bound through one-element sets, Val({e : x \in  *)
(* {v}}), which computes v once.                                           *)
(*                                                                         *)
(* Numbers.  A float is a pair <<n, d>> standing for n / d.  d = 0 keeps   *)
(* the IEEE result of a division by zero: <<0, 0>> is NaN, <<n, 0>> with   *)
(* n > 0 is +inf and with n < 0 is -inf.  A logarithm is kept as the       *)
(* record [ln |-> q] of its argument, a square root as [sq |-> q], and a   *)
(* mask entry as the record of the factors the code multiplies, so that    *)
(* two entries are equal exactly when the code computes them from the same *)
(* operands.  Tensors are functions over 0-based index ranges.             *)
(***************************************************************************)
EXTENDS Integers, Sequences, FiniteSets, TLC

VARIABLES pc, self, args, last

vars == <<pc, self, args, last>>

----------------------------------------------------------------------------
(* Bounds of the explored inputs. *)
MaxScale == 2
MaxRows == 3
MaxCols == 3

\* An optional value is the empty set (None) or the set of its one value;
\* a call either returns a value or raises.
None == {}
Some(v) == {v}
Val(o) == CHOOSE v \in o : TRUE
Return(v) == [err |-> "", val |-> Some(v)]
Raise(e) == [err |-> e, val |-> None]
Ok(r) == r.err = ""

----------------------------------------------------------------------------
(* IEEE-style numbers. *)
NaN == <<0, 0>>

IsNaN(q) == q[2] = 0 /\ q[1] = 0

IsFinite(q) == q[2] # 0

\* the same number with a positive denominator (finite q only)
Norm(q) == IF q[2] < 0 THEN <<-q[1], -q[2]>> ELSE q

\* a / b on floats a and b given as integers
Div(a, b) == <<a, b>>

Less(p, q) == /\ IsFinite(p) /\ IsFinite(q)
              /\ Norm(p)[1] * Norm(q)[2] < Norm(q)[1] * Norm(p)[2]

Leq(p, q) == /\ IsFinite(p) /\ IsFinite(q)
             /\ Norm(p)[1] * Norm(q)[2] <= Norm(q)[1] * Norm(p)[2]

\* sign class of a float: "nan", "neg", "zero", "pos" (infinities by sign)
Sign(q) == IF IsNaN(q) THEN "nan"
           ELSE IF q[2] = 0 THEN (IF q[1] > 0 THEN "pos" ELSE "neg")
           ELSE IF q[1] = 0 THEN "zero"
           ELSE IF (q[1] > 0) = (q[2] > 0) THEN "pos" ELSE "neg"

----------------------------------------------------------------------------
(* Fixed parameters of the layer. *)
min_wl == 3
max_wl == 128
\* cut_off = 0.4
cut_off == <<4, 10>>
g == 10

Range0(n) == 0 .. (n - 1)

----------------------------------------------------------------------------
(* Parameter encoding and decoding. *)

\* torch.log: NaN for a negative or NaN argument, otherwise the logarithm
\* of q (-inf for 0, +inf for +inf), kept as [ln |-> q].
Log(q) == IF Sign(q) \in {"nan", "neg"} THEN [ln |-> NaN] ELSE [ln |-> Norm(q)]

\* torch.nn.functional.sigmoid of ln(q): q / (1 + q); 1 at +inf, NaN at NaN.
sigmoid(w) == IF IsNaN(w.ln) THEN NaN
              ELSE IF w.ln[2] = 0 THEN <<1, 1>>
              ELSE <<w.ln[1], w.ln[1] + w.ln[2]>>

\* values torch.randn can return: finite reals
RandnVals == {[ln |-> <<1, 2>>]}

\* values of torch.randn(1) * 0.05: finite reals close to 0
SmallRandnVals == {[ln |-> <<21, 20>>]}

\* the validation with >= in place of >
wls_accepted_nonneg(wls) == \A i \in DOMAIN wls : wls[i] >= 0

\* an explicit wavelength array is valid when np.all(wls > 0)
wls_accepted(wls) == \A i \in DOMAIN wls : wls[i] > 0

\* wls: None or an array of numbers; rnd: the draw of torch.randn(nscale)
initialize_wls(wls, nscale, rnd) ==
    IF wls = None THEN Return([i \in Range0(nscale) |-> rnd[i]])
    ELSE IF ~ wls_accepted(Val(wls)) THEN Raise("AssertionError")
    ELSE Return([i \in DOMAIN Val(wls) |->
            \* (wls - min_wl) / (max_wl - min_wl) = a / b, then a/b / (1 - a/b)
            LET a == Val(wls)[i] - min_wl
                b == max_wl - min_wl
            IN  Log(Div(a, b - a))])

sigmaonf_accepted(sigmaonf) == Less(<<0, 1>>, sigmaonf) /\ Less(sigmaonf, <<1, 1>>)

\* sigmaonf: None or a float p / q with q > 0; rnd: the draw of randn(1) * 0.05
initialize_sigmaonf(sigmaonf, rnd) ==
    IF sigmaonf = None THEN Return(rnd)
    ELSE IF ~ sigmaonf_accepted(Val(sigmaonf)) THEN Raise("AssertionError")
    ELSE Return(Log(Div(Val(sigmaonf)[1], Val(sigmaonf)[2] - Val(sigmaonf)[1])))

\* min_wl + s * (max_wl - min_wl)
rescale_wls(s) == IF IsNaN(s) THEN NaN
                  ELSE <<min_wl * s[2] + s[1] * (max_wl - min_wl), s[2]>>

get_wls(obj) == [i \in DOMAIN obj.wls |-> rescale_wls(sigmoid(obj.wls[i]))]

get_sigmaonf(obj) == sigmoid(obj.sigmaonf)

----------------------------------------------------------------------------
(* Frequency mesh. *)

\* torch.arange(s2 / 2, e2 / 2) with step 1: ceil((e2 - s2) / 2) entries
\* starting at s2 / 2 (s2 is even at every call of the source)
arange(s2, e2) ==
    LET len == ((e2 - s2) + 1) \div 2
    IN  [i \in Range0(len) |-> (s2 \div 2) + i]

\* the range of one axis of n points
axis_range(n) ==
    IF n % 2 = 1
    THEN LET r == arange(-(n - 1), n) IN [i \in DOMAIN r |-> Div(r[i], n - 1)]
    ELSE LET r == arange(-n, n) IN [i \in DOMAIN r |-> Div(r[i], n)]

\* torch.fft.ifftshift of a 2-D tensor: every axis rolled by -(len // 2)
ifftshift(u) ==
    LET nr == Cardinality(DOMAIN u)
        nc == Cardinality(DOMAIN u[0])
    IN  [i \in Range0(nr) |-> [j \in Range0(nc) |->
            u[(i + (nr \div 2)) % nr][(j + (nc \div 2)) % nc]]]

\* sqrt(a^2 + b^2), kept as [sq |-> a^2 + b^2]
Hypot(a, b) == [sq |-> <<a[1] * a[1] * b[2] * b[2] + b[1] * b[1] * a[2] * a[2],
                         a[2] * a[2] * b[2] * b[2]>>]

mesh_range(rows, cols) ==
    Val({Val({
        [u1 |-> u1, u2 |-> u2,
         \* radius = torch.sqrt(u1**2 + u2**2)
         radius |-> [i \in DOMAIN u1 |-> [j \in DOMAIN u1[i] |->
                        Hypot(u1[i][j], u2[i][j])]]]
        \* torch.meshgrid(xrange, yrange, indexing='xy'), then the quadrant shift
        : u1 \in {ifftshift([i \in DOMAIN yrange |-> [j \in DOMAIN xrange |-> xrange[j]]])},
          u2 \in {ifftshift([i \in DOMAIN yrange |-> [j \in DOMAIN xrange |-> yrange[i]]])}})
        : xrange \in {axis_range(cols)}, yrange \in {axis_range(rows)}})

Shape2(t) == <<Cardinality(DOMAIN t), Cardinality(DOMAIN t[0])>>


----------------------------------------------------------------------------
(* Filters. *)

\* 1.0 / (1.0 + (radius / cutoff) ** (2 * n)) at one point, kept by its operands
LowPassEntry(r, cutoff, n) == [radius |-> r, cutoff |-> cutoff, n |-> n]

\* radius[0,0] = 1.
patch_radius(radius) == [radius EXCEPT ![0][0] = [sq |-> <<1, 1>>]]

\* lowpassfilter built on the grid that get_filters has patched
lowpassfilter_shared(sze, cutoff, n) ==
    IF Less(cutoff, <<0, 1>>) \/ Less(<<1, 2>>, cutoff)
    THEN Raise("TypeError")
    ELSE IF n[1] % n[2] # 0 \/ Less(n, <<1, 1>>)
    THEN Raise("TypeError")
    ELSE IF Len(sze) = 1
    THEN Raise("UnboundLocalError")
    ELSE Val({
        Return([i \in DOMAIN radius |-> [j \in DOMAIN radius[i] |->
                  LowPassEntry(radius[i][j], cutoff, n)]])
        : radius \in {patch_radius(mesh_range(sze[1], sze[2]).radius)}})

\* sze: a sequence of sizes; cutoff and n: floats
lowpassfilter(sze, cutoff, n) ==
    IF Less(cutoff, <<0, 1>>) \/ Less(<<1, 2>>, cutoff)
    THEN Raise("TypeError")     \* raise('cutoff frequency must be between 0 and 0.5')
    ELSE IF n[1] % n[2] # 0 \/ Less(n, <<1, 1>>)
    THEN Raise("TypeError")     \* raise('n must be an integer >= 1')
    ELSE IF Len(sze) = 1
    THEN Raise("UnboundLocalError")     \* rows and cols are never assigned
    ELSE Val({
        Return([i \in DOMAIN radius |-> [j \in DOMAIN radius[i] |->
                  LowPassEntry(radius[i][j], cutoff, n)]])
        : radius \in {mesh_range(sze[1], sze[2]).radius}})

\* exp(-(log(radius / fo)) ** 2 / (2 * log(sigmaonf) ** 2)) at one point
LogGaborEntry(r, fo, sigmaonf) == [radius |-> r, fo |-> fo, sigmaonf |-> sigmaonf]

\* 1.0 / wl
Recip(q) == <<q[2], q[1]>>

\* one mask per entry of the wavelength array: shape (len(wls), rows, cols)
compute_logGabor(obj, radius) ==
    Val({
        [s \in DOMAIN fo |-> [i \in DOMAIN radius |-> [j \in DOMAIN radius[i] |->
            LogGaborEntry(radius[i][j], fo[s], sigmaonf)]]]
        : fo \in {[s \in DOMAIN obj.wls |-> Recip(get_wls(obj)[s])]},
          sigmaonf \in {sigmoid(obj.sigmaonf)}})

\* an entry of the combined mask: the product lgf * lp, or the constant 0
ProdEntry(lg, lp) == [k |-> "prod", lg |-> Some(lg), lp |-> Some(lp)]
ZeroEntry == [k |-> "zero", lg |-> None, lp |-> None]

\* lgf[0,0] = 0 on the 3-D tensor lgf: the slice lgf[0, 0, :] is assigned
zero_frequency_assign(lgf) == [lgf EXCEPT ![0][0] = [j \in DOMAIN @ |-> ZeroEntry]]

get_filters(obj, rows, cols) ==
    Val({Val({Val({
        IF ~ Ok(lp) THEN Raise(lp.err)
        ELSE Return([
            \* H = (1j*u1 - u2) / radius
            H |-> [i \in DOMAIN radius |-> [j \in DOMAIN radius[i] |->
                    [u1 |-> m.u1[i][j], u2 |-> m.u2[i][j], radius |-> radius[i][j]]]],
            \* lgf = lgf * lp, then lgf[0,0] = 0
            lgf |-> zero_frequency_assign(
                        [s \in DOMAIN lg |-> [i \in DOMAIN lg[s] |->
                           [j \in DOMAIN lg[s][i] |->
                              ProdEntry(lg[s][i][j], Val(lp.val)[i][j])]]]),
            \* H and lgf are returned; radius and lp are the locals
            radius |-> radius,
            lp |-> Val(lp.val)])
        : lg \in {compute_logGabor(obj, radius)},
          lp \in {lowpassfilter(<<rows, cols>>, cut_off, <<g, 1>>)}})
        : radius \in {patch_radius(m.radius)}})
        : m \in {mesh_range(rows, cols)}})

(* Sign classes of the values the entries stand for. *)
ClsRadius(r) == Sign(r.sq)

ClsLowPass(e) ==
    IF ClsRadius(e.radius) = "nan" \/ IsNaN(e.cutoff) THEN "nan"
    ELSE IF Sign(e.cutoff) = "zero"
         THEN (IF ClsRadius(e.radius) = "zero" THEN "nan" ELSE "zero")
    ELSE "pos"

ClsLogGabor(e) ==
    IF ClsRadius(e.radius) = "nan" \/ Sign(e.fo) # "pos" \/ ~ IsFinite(e.fo)
       \/ IsNaN(e.sigmaonf)
    THEN "nan"
    ELSE IF Sign(e.sigmaonf) = "zero" THEN "pos"        \* x / inf = 0, exp(-0) = 1
    ELSE IF e.sigmaonf[1] = e.sigmaonf[2]               \* log(1) = 0 divides
         THEN (IF e.radius.sq[1] * e.fo[2] * e.fo[2] = e.fo[1] * e.fo[1] * e.radius.sq[2]
               THEN "nan" ELSE "zero")
    ELSE IF ClsRadius(e.radius) = "zero" THEN "zero"    \* exp(-inf)
    ELSE "pos"

ClsEntry(e) ==
    IF e.k = "zero" THEN "zero"
    ELSE LET a == ClsLogGabor(Val(e.lg))
             b == ClsLowPass(Val(e.lp))
         IN  IF a = "nan" \/ b = "nan" THEN "nan"
             ELSE IF a = "zero" \/ b = "zero" THEN "zero"
             ELSE "pos"


----------------------------------------------------------------------------
(* Tensor shapes: sequences of sizes. *)

Max(a, b) == IF a >= b THEN a ELSE b

\* size of dimension k counted from the right (1 = last); 1 where absent
DimR(sh, k) == IF k <= Len(sh) THEN sh[Len(sh) - k + 1] ELSE 1

Broadcastable(a, b) ==
    \A k \in 1 .. Max(Len(a), Len(b)) :
        DimR(a, k) = DimR(b, k) \/ DimR(a, k) = 1 \/ DimR(b, k) = 1

Broadcast(a, b) ==
    LET n == Max(Len(a), Len(b))
    IN  [k \in 1 .. n |-> Max(DimR(a, n - k + 1), DimR(b, n - k + 1))]

\* torch.sum(t, dim=1): dimension 1 (0-based) is removed
SumDim1(sh) == [k \in 1 .. (Len(sh) - 1) |-> IF k < 2 THEN sh[k] ELSE sh[k + 1]]

\* torch.stack(out, dim=1): a non-empty list of tensors of one shape
stack(shapes) ==
    IF Len(shapes) = 0 THEN Raise("RuntimeError")
    ELSE IF \E k \in 1 .. Len(shapes) : shapes[k] # shapes[1] THEN Raise("RuntimeError")
    ELSE LET sh == shapes[1]
         IN  Return([k \in 1 .. (Len(sh) + 1) |->
                        IF k < 2 THEN sh[k]
                        ELSE IF k = 2 THEN Len(shapes)
                        ELSE sh[k - 1]])

\* the (channel, scale) index pairs that IM * lgf multiplies and the sum over
\* dimension 1 adds up: dimension 1 of x (channels) is aligned with dimension 0
\* of lgf (scales)
summed_pairs(C, S) ==
    {<<IF C = 1 THEN 0 ELSE k, IF S = 1 THEN 0 ELSE k>> : k \in Range0(Max(C, S))}

\* the list out of forward: the names and shapes appended, in order
out_list(obj, xshape, agg) ==
    (IF obj.return_input THEN <<[name |-> "input", shape |-> xshape]>> ELSE <<>>)
    \o (IF obj.return_phase THEN <<[name |-> "phase", shape |-> agg]>> ELSE <<>>)
    \o (IF obj.return_ori THEN <<[name |-> "ori", shape |-> agg]>> ELSE <<>>)
    \o (IF obj.return_phase_asym THEN <<[name |-> "phase_asym", shape |-> agg]>> ELSE <<>>)

\* forward on an input of shape xshape = (N, C, rows, cols)
forward(obj, xshape) ==
    Val({
        IF ~ Ok(fl) THEN [err |-> fl.err, filters |-> None, pairs |-> {},
                          agg |-> <<>>, channels |-> <<>>, shape |-> <<>>]
        ELSE Val({
            IF ~ Broadcastable(xshape, lgfshape)        \* IMF = IM * lgf
            THEN [err |-> "RuntimeError", filters |-> fl.val, pairs |-> {},
                  agg |-> <<>>, channels |-> <<>>, shape |-> <<>>]
            ELSE Val({Val({
                [err |-> st.err, filters |-> fl.val,
                 pairs |-> summed_pairs(xshape[2], lgfshape[1]),
                 agg |-> agg,
                 channels |-> IF Ok(st) THEN [k \in 1 .. Len(out) |-> out[k].name]
                              ELSE <<>>,
                 shape |-> IF Ok(st) THEN Val(st.val) ELSE <<>>]
                \* torch.stack(out, dim=1)
                : out \in {out_list(obj, xshape, agg)},
                  st \in {stack([k \in 1 .. Len(out_list(obj, xshape, agg)) |->
                                   out_list(obj, xshape, agg)[k].shape])}})
                \* f, h1, h2, h_Amp2, An, symmetry_energy after torch.sum(., dim=1)
                : agg \in {SumDim1(Broadcast(Broadcast(xshape, lgfshape),
                                             <<xshape[3], xshape[4]>>))}})
            : lgfshape \in {<<Cardinality(DOMAIN Val(fl.val).lgf)>>
                            \o Shape2(Val(fl.val).lgf[0])}})
        : fl \in {get_filters(obj, xshape[3], xshape[4])}})

----------------------------------------------------------------------------
(* Per-sample min-max normalisation of a batch x[n][i][j] of integer maps. *)
\* torch.amin / torch.amax over the last two dimensions of sample m
amin(m) == CHOOSE v \in {m[i][j] : i \in DOMAIN m, j \in DOMAIN m[0]} :
               \A i \in DOMAIN m : \A j \in DOMAIN m[i] : v <= m[i][j]
amax(m) == CHOOSE v \in {m[i][j] : i \in DOMAIN m, j \in DOMAIN m[0]} :
               \A i \in DOMAIN m : \A j \in DOMAIN m[i] : v >= m[i][j]

\* (x - x_min) / (x_max - x_min)
scale_max_min(x) ==
    [n \in DOMAIN x |-> [i \in DOMAIN x[n] |-> [j \in DOMAIN x[n][i] |->
        Div(x[n][i][j] - amin(x[n]), amax(x[n]) - amin(x[n]))]]]

----------------------------------------------------------------------------
(* The layer as a state machine: an object is constructed once, then its   *)
(* methods are called in any order.                                        *)

\* argument values tried
NscaleVals == 0 .. MaxScale
WlVals == {0, 2, 6}
WlsVals == UNION {[Range0(n) -> WlVals] : n \in 1 .. MaxScale}
SigmaonfVals == {<<0, 100>>, <<55, 100>>, <<100, 100>>}
CutoffVals == {<<-1, 10>>, <<4, 10>>, <<1, 2>>, <<6, 10>>}
OrderVals == {<<0, 1>>, <<3, 2>>, <<10, 1>>}
SzeVals == {<<MaxRows>>, <<MaxRows, MaxCols>>}
\* shapes (N, C, rows, cols) of x tried: N in BatchVals, C in ChanVals
BatchVals == {2}
ChanVals == 1 .. 3
\* pre-normalisation maps tried: batches of shape (n, rows, cols)
NormVals == {-1, 0, 2}
NormShapes == {<<1, 1, 2>>, <<1, 2, 2>>, <<2, 1, 2>>}
NormMaps == UNION {[Range0(sh[1]) -> [Range0(sh[2]) -> [Range0(sh[3]) -> NormVals]]] :
                     sh \in NormShapes}

NoCall == [op |-> "none", err |-> ""]

Init ==
    /\ pc = "new"
    /\ self = None
    /\ args = None
    /\ last = NoCall

\* Mono2D.__init__: the object exists only if no assertion fails
Construct(nscale, sigmaonf, wls, flags, rndw, rnds) ==
    /\ pc = "new"
    /\ args' = Some([nscale |-> nscale, sigmaonf |-> sigmaonf, wls |-> wls])
    /\ LET w == initialize_wls(wls, nscale, rndw)
           b == initialize_sigmaonf(sigmaonf, rnds)
       IN  IF ~ (nscale > 0) \/ ~ Ok(w) \/ ~ Ok(b)
           THEN /\ pc' = "failed"
                /\ self' = None
                /\ last' = [op |-> "__init__", err |-> "AssertionError"]
           ELSE /\ pc' = "ready"
                /\ self' = Some([return_phase |-> flags[1],
                                 return_phase_asym |-> flags[2],
                                 return_input |-> flags[3],
                                 return_ori |-> flags[4],
                                 nscale |-> nscale,
                                 wls |-> Val(w.val),
                                 sigmaonf |-> Val(b.val)])
                /\ last' = [op |-> "__init__", err |-> ""]

Forward(xshape) ==
    /\ pc = "ready"
    /\ last' = [op |-> "forward", xshape |-> xshape, res |-> forward(Val(self), xshape)]
    /\ UNCHANGED <<pc, self, args>>

LowPassFilter(sze, cutoff, n) ==
    /\ pc = "ready"
    /\ last' = [op |-> "lowpassfilter", sze |-> sze, cutoff |-> cutoff, n |-> n,
                res |-> lowpassfilter(sze, cutoff, n)]
    /\ UNCHANGED <<pc, self, args>>

MeshRange(rows, cols) ==
    /\ pc = "ready"
    /\ last' = [op |-> "mesh_range", rows |-> rows, cols |-> cols,
                res |-> mesh_range(rows, cols)]
    /\ UNCHANGED <<pc, self, args>>

\* scale_max_min reads no field of the object
ScaleMaxMin(x) ==
    /\ last' = [op |-> "scale_max_min", x |-> x, res |-> scale_max_min(x)]
    /\ UNCHANGED <<pc, self, args>>

\* the flags of the signature's defaults: return_phase only
DefaultFlags == <<TRUE, FALSE, FALSE, FALSE>>

\* constructor calls tried: every flag combination with wls and sigmaonf left
\* to their defaults, and every wls and sigmaonf with the default flags
ConstructSome ==
    /\ pc = "new"
    /\ \E nscale \in NscaleVals, sigmaonf \in {None} \cup {Some(v) : v \in SigmaonfVals},
          wls \in {None} \cup {Some(v) : v \in WlsVals}, flags \in [1 .. 4 -> BOOLEAN] :
          \E rndw \in (IF wls = None /\ nscale > 0
                       THEN [Range0(nscale) -> RandnVals] ELSE {<<>>}),
             rnds \in (IF sigmaonf = None THEN SmallRandnVals ELSE {[ln |-> NaN]}) :
             /\ flags = DefaultFlags \/ (wls = None /\ sigmaonf = None)
             /\ Construct(nscale, sigmaonf, wls, flags, rndw, rnds)

ForwardSome ==
    /\ pc = "ready"
    /\ \E N \in BatchVals, C \in ChanVals, rows \in 1 .. MaxRows, cols \in 1 .. MaxCols :
          Forward(<<N, C, rows, cols>>)

LowPassFilterSome ==
    /\ pc = "ready"
    /\ \E sze \in SzeVals, cutoff \in CutoffVals, n \in OrderVals :
          LowPassFilter(sze, cutoff, n)

MeshRangeSome ==
    /\ pc = "ready"
    /\ \E rows \in 1 .. MaxRows, cols \in 1 .. MaxCols : MeshRange(rows, cols)

\* an object and its forward calls
Next == ConstructSome \/ ForwardSome

Spec == Init /\ [][Next]_vars

\* an object and the calls of its filter-building methods
NextTools == ConstructSome \/ LowPassFilterSome \/ MeshRangeSome

SpecTools == Init /\ [][NextTools]_vars

\* the normalisation applied to maps of every kind
NextNorm == \E x \in NormMaps : ScaleMaxMin(x)

SpecNorm == Init /\ [][NextNorm]_vars

----------------------------------------------------------------------------
(* Properties. *)

Obj == Val(self)
Filters == Val(last.res.filters)
ForwardBuiltFilters == last.op = "forward" /\ last.res.filters # None

\* the enabled outputs in the order input, phase, orientation, phase_asym
EnabledChannels(obj) ==
    (IF obj.return_input THEN <<"input">> ELSE <<>>)
    \o (IF obj.return_phase THEN <<"phase">> ELSE <<>>)
    \o (IF obj.return_ori THEN <<"ori">> ELSE <<>>)
    \o (IF obj.return_phase_asym THEN <<"phase_asym">> ELSE <<>>)

\* C1: for every flag combination and every input of shape (N, C, H, W),
\* forward returns an array of shape (N, K, H, W), K the number of enabled
\* flags, with the enabled channels in the order input, phase, orientation,
\* phase_asym.
C1_ForwardShape ==
    last.op = "forward" =>
        /\ last.res.err = ""
        /\ last.res.shape = <<last.xshape[1], Len(EnabledChannels(Obj)),
                              last.xshape[3], last.xshape[4]>>
        /\ last.res.channels = EnabledChannels(Obj)

\* C2: for every scale s, the combined mask returned by get_filters has its
\* zero-frequency entry lgf[s][0,0] equal to exactly 0.
C2_ZeroFrequencyIsZero ==
    ForwardBuiltFilters =>
        \A s \in DOMAIN Filters.lgf : ClsEntry(Filters.lgf[s][0][0]) = "zero"

\* C3: after a construction that succeeds with explicit wavelengths, every
\* decoded wavelength lies strictly inside (min_wl, max_wl) and is a defined
\* number, and the decoded bandwidth lies strictly inside (0, 1).
C3_DecodedInRange ==
    (pc = "ready" /\ Val(args).wls # None) =>
        /\ \A i \in DOMAIN Obj.wls :
              /\ Less(<<min_wl, 1>>, get_wls(Obj)[i])
              /\ Less(get_wls(Obj)[i], <<max_wl, 1>>)
        /\ Less(<<0, 1>>, get_sigmaonf(Obj))
        /\ Less(get_sigmaonf(Obj), <<1, 1>>)

\* C4: after any successful construction the wavelength code array has exactly
\* nscale entries, so the bank built in forward has exactly nscale masks.
C4_OneCodePerScale ==
    pc = "ready" =>
        /\ Cardinality(DOMAIN Obj.wls) = Obj.nscale
        /\ ForwardBuiltFilters => Cardinality(DOMAIN Filters.lgf) = Obj.nscale

\* the configurations the specification calls invalid
InvalidArgs(a) ==
    \/ a.nscale <= 0
    \/ a.sigmaonf # None
         /\ ~ (0 < Val(a.sigmaonf)[1] /\ Val(a.sigmaonf)[1] < Val(a.sigmaonf)[2])
    \/ a.wls # None /\ \E i \in DOMAIN Val(a.wls) : Val(a.wls)[i] <= 0

InvalidLowPass(cutoff, n) ==
    \/ cutoff[1] < 0
    \/ 2 * cutoff[1] > cutoff[2]
    \/ n[1] % n[2] # 0
    \/ n[1] < n[2]

\* C5: every invalid configuration ends in an error raised by the call itself:
\* construction fails when nscale <= 0, when a supplied sigmaonf is outside
\* (0,1) or when a supplied wavelength is <= 0, and no object exists then;
\* lowpassfilter fails when cutoff is outside [0, 0.5] or n is not a positive
\* integer, and returns no mask then.
C5_InvalidConfigurationRaises ==
    /\ (args # None /\ InvalidArgs(Val(args))) =>
          /\ pc = "failed"
          /\ self = None
          /\ last.op = "__init__"
          /\ last.err = "AssertionError"
    /\ (last.op = "lowpassfilter" /\ InvalidLowPass(last.cutoff, last.n)) =>
          /\ last.res.err # ""
          /\ last.res.val = None

\* a construction refused for a wavelength <= 0 alone
C5_Witness ==
    /\ pc = "failed"
    /\ Val(args).nscale > 0
    /\ Val(args).sigmaonf = None
    /\ Val(args).wls # None
    /\ \E i \in DOMAIN Val(Val(args).wls) : Val(Val(args).wls)[i] <= 0
    /\ last.err = "AssertionError"

\* C6: for any rows >= 1 and cols >= 1, mesh_range returns u1, u2 and radius of
\* shape (rows, cols), with radius >= 0 everywhere and u1[0,0] = u2[0,0] = 0.
C6_MeshRange ==
    last.op = "mesh_range" =>
        /\ Shape2(last.res.u1) = <<last.rows, last.cols>>
        /\ Shape2(last.res.u2) = <<last.rows, last.cols>>
        /\ Shape2(last.res.radius) = <<last.rows, last.cols>>
        /\ \A i \in DOMAIN last.res.radius : \A j \in DOMAIN last.res.radius[i] :
              Leq(<<0, 1>>, last.res.radius[i][j].sq)
        /\ Sign(last.res.u1[0][0]) = "zero"
        /\ Sign(last.res.u2[0][0]) = "zero"

Constant(m) == \A i \in DOMAIN m : \A j \in DOMAIN m[i] : m[i][j] = m[0][0]

\* C7: scale_max_min yields values in [0,1] for every sample whose map is not
\* constant, and a defined value for every sample whose map is constant.
C7_Normalised ==
    last.op = "scale_max_min" =>
        \A n \in DOMAIN last.x : \A i \in DOMAIN last.x[n] : \A j \in DOMAIN last.x[n][i] :
            IF Constant(last.x[n])
            THEN ~ IsNaN(last.res[n][i][j])
            ELSE Leq(<<0, 1>>, last.res[n][i][j]) /\ Leq(last.res[n][i][j], <<1, 1>>)

\* C8: forcing the zero-frequency response to 0 changes only the entry (0,0):
\* at every scale s and every other index (r, c) the combined mask equals
\* logGabor[s][r,c] * lowPass[r,c] and is strictly positive.
C8_OnlyZeroFrequencyForced ==
    ForwardBuiltFilters =>
        \A lg \in {compute_logGabor(Obj, Filters.radius)} :
        \A s \in DOMAIN Filters.lgf : \A r \in DOMAIN Filters.lgf[s] :
        \A c \in DOMAIN Filters.lgf[s][r] :
            <<r, c>> # <<0, 0>> =>
                /\ Filters.lgf[s][r][c] = ProdEntry(lg[s][r][c], Filters.lp[r][c])
                /\ ClsEntry(Filters.lgf[s][r][c]) = "pos"

\* C9: for every number of channels C >= 1 and every nscale >= 1, forward
\* filters each input channel with each of the nscale masks and sums over
\* scales and channels into one map of shape (rows, cols) per batch sample.
C9_EveryChannelEveryScale ==
    last.op = "forward" =>
        /\ last.res.agg = <<last.xshape[1], last.xshape[3], last.xshape[4]>>
        /\ last.res.pairs = Range0(last.xshape[2]) \X Range0(Obj.nscale)

\* C10: a forward call leaves the object's fields as they were; the low-pass
\* filter is built on a grid of its own, not on the grid get_filters patched at
\* [0,0]; and a forward call of the same input size as the call before it
\* builds the same filters.
C10_ForwardKeepsNoState ==
    [][(pc = "ready" /\ last'.op = "forward") =>
          /\ self' = self
          /\ last'.res.filters # None =>
                LET f == Val(last'.res.filters)
                    fresh == mesh_range(last'.xshape[3], last'.xshape[4]).radius[0][0]
                IN  /\ f.radius[0][0] = [sq |-> <<1, 1>>]
                    /\ f.lp[0][0].radius = fresh
                    /\ f.lp[0][0].radius # f.radius[0][0]
          /\ (/\ last.op = "forward"
              /\ last.xshape[3] = last'.xshape[3]
              /\ last.xshape[4] = last'.xshape[4]) =>
                last'.res.filters = last.res.filters]_vars

\* a forward call that returned: the grid of get_filters carries the
\* patch and the grid of the low-pass filter has radius 0 at [0,0]
C10_Witness ==
    /\ ForwardBuiltFilters
    /\ last.res.err = ""
    /\ Filters.radius[0][0] = [sq |-> <<1, 1>>]
    /\ Sign(Filters.lp[0][0].radius.sq) = "zero"
    /\ Cardinality(DOMAIN Filters.lgf) > 1

=============================================================================
